---------------------------- MODULE Spec2Model ----------------------------
(***************************************************************************)
(* Model of the fairness metric engine (fare/metric/fairness.py) and of    *)
(* the stance rerankers (fare/modules/fairness_reranker.py).               *)
(*                                                                         *)
(* Each subsystem has its own specification over its own variables; the    *)
(* variables of the other subsystems stay at their idle values.            *)
(*   SpecRND   _NormalizedDiscountedDifference.fairness                    *)
(*   SpecSel   FairnessMeasure._protected_group                            *)
(*   SpecEval  FairnessEvaluator._iter_calc / FairnessMeasure.compute      *)
(*   SpecAlt   AlternatingStanceReranker._transform_query                  *)
(*   SpecBal   BalancedStanceReranker._transform_query                     *)
(*   SpecGain  InverseStanceGainReranker._rerank_query                     *)
(*   SpecBoost BoostMinorityStanceReranker._rerank_query                   *)
(*                                                                         *)
(* SpecBalFair and SpecAltFair are SpecBal and SpecAlt with the loop run   *)
(* to its end.                                                             *)
(*                                                                         *)
(* Conventions.                                                            *)
(*  - A group-count mapping (what _group_counts is written to build) is a *)
(*    function Groups -> Nat; a key of the dict is a group with a count    *)
(*    > 0 (groupby().size() has no empty groups), every other group reads  *)
(*    as the default 0.  Keys are iterated in natural label order, as      *)
(*    groupby sorts them.  Neither module imports defaultdict: a statement *)
(*    that builds one raises NameError.                                    *)
(*  - A raised exception is a value [err |-> <exception class>].           *)
(*  - Floats: a score is kept exactly, as the sequence of the rational     *)
(*    coefficients of the discounts 1/log2(i+1), and in millionths         *)
(*    ("micro"), with the discounts taken from a table.                    *)
(***************************************************************************)
EXTENDS Integers, Sequences, FiniteSets, TLC

\* ------------------------------------------------------------------ bounds
\* Longest ranking of one query.
MaxLen == 3
\* Largest judgment count of one group in one query.
MaxCount == 2

\* Group labels, in their natural (string) order.
LabelOrder == <<"A", "B", "C">>
Groups == {LabelOrder[i] : i \in 1..Len(LabelOrder)}
Pos(g) == CHOOSE i \in 1..Len(LabelOrder) : LabelOrder[i] = g

\* ----------------------------------------------------------------- helpers
Abs(x) == IF x < 0 THEN -x ELSE x
Min(a, b) == IF a < b THEN a ELSE b

RECURSIVE GCD(_, _)
GCD(a, b) == IF b = 0 THEN a ELSE GCD(b, a % b)

\* The rational n/d (d > 0, n >= 0) in lowest terms.
Rat(n, d) == LET g == GCD(n, d) IN <<n \div g, d \div g>>

RECURSIVE SumSeq(_)
SumSeq(s) == IF s = <<>> THEN 0 ELSE Head(s) + SumSeq(Tail(s))

RECURSIVE SumCounts(_, _)
SumCounts(counts, gs) ==
    IF gs = {} THEN 0
    ELSE LET g == CHOOSE x \in gs : TRUE
         IN counts[g] + SumCounts(counts, gs \ {g})

SeqsUpTo(S, n) == UNION {[1..m -> S] : m \in 0..n}
NonEmptySeqsUpTo(S, n) == UNION {[1..m -> S] : m \in 1..n}

CountMaps == [Groups -> 0..MaxCount]

\* ---------------------------------------------------------------- variables
VARIABLES
    \* _NormalizedDiscountedDifference.fairness
    ranking,            \* the ranking frame: rows [rank, group] in row order
    group_counts,       \* the group-count mapping
    protected_group,    \* the protected group
    score,              \* the returned score, or the raised error
    rnd_input,          \* the ranking as it was passed in
    rnd_pc,             \* "call" | "done"
    \* FairnessMeasure._protected_group
    sel_counts,         \* the group-count mapping passed in
    sel_param,          \* _protected_group_param: a strategy or a label
    sel_tie,            \* _tie_breaking_param
    sel_result,         \* the returned group, or the raised error
    sel_tie_read,       \* whether the call read _tie_breaking_param
    sel_pc,             \* "call" | "done"
    \* FairnessEvaluator._iter_calc
    qrels,              \* the judgments: per query, the count of each group
    run,                \* the ranking batch: per query, its documents' groups
                        \* in score order (<<>>: the query is not in the batch)
    measures,           \* the evaluator's measures, each its parameters
    metrics,            \* the Metrics yielded so far (none is ever)
    ev_m,               \* index of the measure whose compute is running
    ev_q,               \* index of the next query group of that compute
    ev_status,          \* "running" | "done" | "aborted"
    ev_error,           \* the error that was propagated
    \* AlternatingStanceReranker._transform_query
    alt_input,          \* the ranking passed in
    alt_ranking,        \* ranking: the remaining pool, then the result
    new_rows,           \* the documents placed so far
    last_stance,        \* stance_value of the document placed last
    alt_pc,             \* "loop" | "done"
    \* BalancedStanceReranker._transform_query
    bal_input,          \* the ranking passed in
    bal_self_k,         \* self.k
    bal_ranking,        \* ranking
    bal_moved,          \* the docnos of the rows the swaps have moved
    bal_pc,             \* "loop" | "done"
    \* InverseStanceGainReranker._rerank_query
    gain_input,         \* the ranking passed in
    gain_stances,       \* self.stances
    gain_alpha,         \* self.alpha, a rational
    gain_result,        \* the returned ranking, or the raised error
    gain_pc,            \* "call" | "done"
    \* BoostMinorityStanceReranker._rerank_query
    boost_input,        \* the ranking passed in
    boost_self,         \* self.boost
    boost_result,       \* the returned ranking, or the raised error
    boost_pc            \* "call" | "done"

rndVars == <<ranking, group_counts, protected_group, score, rnd_input, rnd_pc>>
selVars == <<sel_counts, sel_param, sel_tie, sel_result, sel_tie_read, sel_pc>>
evalVars == <<qrels, run, measures, metrics, ev_m, ev_q, ev_status, ev_error>>
altVars == <<alt_input, alt_ranking, new_rows, last_stance, alt_pc>>
balVars == <<bal_input, bal_self_k, bal_ranking, bal_moved, bal_pc>>
gainVars == <<gain_input, gain_stances, gain_alpha, gain_result, gain_pc>>
boostVars == <<boost_input, boost_self, boost_result, boost_pc>>
vars == <<rndVars, selVars, evalVars, altVars, balVars, gainVars, boostVars>>

\* ===================================================================== rND
\* 10^6 / log2(i + 1), rounded, for i = 1..9: the discount of rank i.
DiscountMicro == <<1000000, 630930, 500000, 430677, 386853, 356207,
                   333333, 315465, 301030>>

NoScore == [err |-> "not computed"]
Raised(e) == [err |-> e]

\* ranking["rank"] += 1 when 0 is among the ranks (fairness.py:294-296).
NormalizeRanks_NoShift(r) == r
NormalizeRanks(r) ==
    IF \E j \in 1..Len(r) : r[j].rank = 0
    THEN [j \in 1..Len(r) |-> [r[j] EXCEPT !.rank = @ + 1]]
    ELSE r

\* Number of rows of group pg with rank in range(1, i + 1)
\* (fairness.py:301-318).
SPlusIn(r, pg, i) ==
    Cardinality({j \in 1..Len(r) :
        r[j].rank >= 1 /\ r[j].rank <= i /\ r[j].group = pg})

\* N = sum(group_counts.values()) (fairness.py:292).
TotalCount(counts) == SumCounts(counts, Groups)

\* abs(abs(S_Plus_in_i / (i + 1)) - abs(S_plus / N)), exactly
\* (fairness.py:324).
Deviation(sIn, i, sPlus, n) ==
    Rat(Abs(sIn * n - sPlus * (i + 1)), (i + 1) * n)

\* The term of rank i in millionths: discount times deviation.
TermMicro(i, dev) == (DiscountMicro[i] * dev[1]) \div dev[2]

\* fairness(ranking, group_col, group_counts, protected_group), on the
\* ranking with its ranks already normalized (fairness.py:298-329).
\* 1 / log(i + 1, 2) divides by zero for i = 0, S_plus / N for N = 0.
SumTerms(r, counts, pg) ==
    LET n == TotalCount(counts)
        ranks == [j \in 1..Len(r) |-> r[j].rank]
    IN  IF \E j \in 1..Len(r) : ranks[j] = 0 \/ n = 0
        THEN Raised("ZeroDivisionError")
        ELSE LET devs == [j \in 1..Len(r) |->
                     Deviation(SPlusIn(r, pg, ranks[j]), ranks[j],
                               counts[pg], n)]
             IN [err |-> "none",
                 ranks |-> ranks,
                 terms |-> devs,
                 micro |-> SumSeq([j \in 1..Len(r) |->
                                      TermMicro(ranks[j], devs[j])])]

fairness(r, counts, pg) == SumTerms(NormalizeRanks(r), counts, pg)

\* A ranking of one query: the groups of its documents in score order,
\* ranked from base (0 or 1).
RankingOf(order, base) ==
    [j \in 1..Len(order) |-> [rank |-> base + j - 1, group |-> order[j]]]

RndIdle ==
    /\ ranking = <<>>
    /\ group_counts = [g \in Groups |-> 0]
    /\ protected_group = "A"
    /\ score = NoScore
    /\ rnd_input = <<>>
    /\ rnd_pc = "idle"

RndInit ==
    /\ \E order \in NonEmptySeqsUpTo(Groups, MaxLen), base \in {0, 1} :
          /\ ranking = RankingOf(order, base)
          /\ rnd_input = RankingOf(order, base)
    /\ group_counts \in CountMaps
    /\ protected_group \in Groups
    /\ score = NoScore
    /\ rnd_pc = "call"

\* One call of fairness: the frame's ranks are shifted in place, the score
\* is returned.
Fairness ==
    /\ rnd_pc = "call"
    /\ ranking' = NormalizeRanks(ranking)
    /\ score' = fairness(ranking, group_counts, protected_group)
    /\ rnd_pc' = "done"
    /\ UNCHANGED <<group_counts, protected_group, rnd_input>>


\* ======================================================== _protected_group
\* Longest tie-breaking preference list.
MaxPref == 2

\* ProtectedGroupStrategy (fairness.py:27-29).
ProtectedGroupStrategy == {"MINORITY", "MAJORITY"}
\* _protected_group_param: a strategy, or an explicit group label
\* (fairness.py:90-103).
ProtectedGroupParams == ProtectedGroupStrategy \cup Groups

\* _tie_breaking_param (fairness.py:105-123): None, a TieBreakingStrategy,
\* or the list of the labels of a comma-separated preference.
TieBreakingStrategy == {"RANDOM", "GROUP_ASCENDING", "GROUP_DESCENDING"}
\* Labels a preference list may name: the groups and a label of no group.
PrefLabels == Groups \cup {"Z"}
NoTieBreaking == [kind |-> "NONE", list |-> <<>>]
TieBreakingParams ==
    {NoTieBreaking}
    \cup {[kind |-> k, list |-> <<>>] : k \in TieBreakingStrategy}
    \cup {[kind |-> "PREFERENCE", list |-> l] :
             l \in NonEmptySeqsUpTo(PrefLabels, MaxPref)}

Ok(g) == [err |-> "none", why |-> "", group |-> g]
Err(e, why) == [err |-> e, why |-> why, group |-> "none"]

\* group_counts.items(): the keys of the dict with their counts, in key
\* order (fairness.py:147-149).
Items(counts) ==
    LET keys == SelectSeq(LabelOrder, LAMBDA g : counts[g] > 0)
    IN  [i \in 1..Len(keys) |-> <<keys[i], counts[keys[i]]>>]

RemoveAt(s, i) == SubSeq(s, 1, i - 1) \o SubSeq(s, i + 1, Len(s))

\* sorted(groups, key=count) and sorted(groups, key=count, reverse=True):
\* both stable (fairness.py:150-153).
RECURSIVE SortedByCount(_, _)
SortedByCount(items, reverse) ==
    IF items = <<>> THEN <<>>
    ELSE LET first == CHOOSE i \in 1..Len(items) :
                 /\ \A j \in 1..Len(items) :
                        IF reverse THEN items[j][2] <= items[i][2]
                                   ELSE items[j][2] >= items[i][2]
                 /\ \A j \in 1..(i - 1) : items[j][2] # items[i][2]
         IN <<items[first]>> \o SortedByCount(RemoveAt(items, first), reverse)

\* len(groups) > 1 and groups[0][1] == groups[1][1] (fairness.py:158).
IsTie_AnyPair(groups) ==
    \E i \in 1..(Len(groups) - 1) : groups[i][2] = groups[i + 1][2]
IsTie_MoreThanTwo(groups) ==
    Len(groups) > 2 /\ groups[1][2] = groups[2][2]
IsTie(groups) ==
    Len(groups) > 1 /\ groups[1][2] = groups[2][2]

\* tie_groups (fairness.py:160-165).
TieGroups(groups) ==
    LET tied == SelectSeq(groups, LAMBDA item : item[2] = groups[1][2])
    IN  [i \in 1..Len(tied) |-> tied[i][1]]

SeqRange(s) == {s[i] : i \in 1..Len(s)}
MinLabel(gs) == CHOOSE g \in gs : \A h \in gs : Pos(g) <= Pos(h)
MaxLabel(gs) == CHOOSE g \in gs : \A h \in gs : Pos(g) >= Pos(h)

\* The outcomes of resolving a tie (fairness.py:166-199).  Every label
\* has __lt__, so the sortability check of line 174 never fails.
BreakTie_FirstListed(tie_groups, tie) ==
    CASE tie.kind = "NONE" -> {Err("ValueError", "tie")}
      [] tie.kind = "RANDOM" -> {Ok(g) : g \in SeqRange(tie_groups)}
      [] tie.kind = "GROUP_ASCENDING" -> {Ok(MinLabel(SeqRange(tie_groups)))}
      [] tie.kind = "GROUP_DESCENDING" -> {Ok(MaxLabel(SeqRange(tie_groups)))}
      [] tie.kind = "PREFERENCE" -> {Ok(tie.list[1])}
BreakTie(tie_groups, tie) ==
    CASE tie.kind = "NONE" -> {Err("ValueError", "tie")}
      [] tie.kind = "RANDOM" -> {Ok(g) : g \in SeqRange(tie_groups)}
      [] tie.kind = "GROUP_ASCENDING" -> {Ok(MinLabel(SeqRange(tie_groups)))}
      [] tie.kind = "GROUP_DESCENDING" -> {Ok(MaxLabel(SeqRange(tie_groups)))}
      [] tie.kind = "PREFERENCE" ->
            LET tie_breaking_groups ==
                    SelectSeq(tie.list, LAMBDA g : g \in SeqRange(tie_groups))
            IN  IF tie_breaking_groups = <<>>
                THEN {Err("ValueError", "preference")}
                ELSE {Ok(tie_breaking_groups[1])}

\* _protected_group(group_counts) under the parameters param and tie: the
\* set of its possible runs, each the outcome and whether the tie-breaking
\* parameter was read (fairness.py:143-202).  groups[0][0] of an empty
\* mapping raises IndexError.
ProtectedGroupRuns(counts, param, tie) ==
    IF param \in ProtectedGroupStrategy
    THEN LET groups == SortedByCount(Items(counts), param = "MAJORITY")
         IN  IF IsTie(groups)
             THEN {[out |-> o, tie_read |-> TRUE] :
                      o \in BreakTie(TieGroups(groups), tie)}
             ELSE IF groups = <<>>
             THEN {[out |-> Err("IndexError", "empty"), tie_read |-> FALSE]}
             ELSE {[out |-> Ok(groups[1][1]), tie_read |-> FALSE]}
    ELSE {[out |-> Ok(param), tie_read |-> FALSE]}

NoResult == [err |-> "not computed", why |-> "", group |-> "none"]

SelIdle ==
    /\ sel_counts = [g \in Groups |-> 0]
    /\ sel_param = "MINORITY"
    /\ sel_tie = NoTieBreaking
    /\ sel_result = NoResult
    /\ sel_tie_read = FALSE
    /\ sel_pc = "idle"

SelInit ==
    /\ sel_counts \in CountMaps
    /\ sel_param \in ProtectedGroupParams
    /\ sel_tie \in TieBreakingParams
    /\ sel_result = NoResult
    /\ sel_tie_read = FALSE
    /\ sel_pc = "call"

\* One call of _protected_group.
SelectProtectedGroup ==
    /\ sel_pc = "call"
    /\ \E sel \in ProtectedGroupRuns(sel_counts, sel_param, sel_tie) :
          /\ sel_result' = sel.out
          /\ sel_tie_read' = sel.tie_read
    /\ sel_pc' = "done"
    /\ UNCHANGED <<sel_counts, sel_param, sel_tie>>

\* ============================================================== _iter_calc
\* Largest judgment count of one group in one query of an evaluation.
MaxJudged == 1
\* Longest ranking of one query of an evaluated batch.
MaxRunLen == 1

\* The query ids, in ascending order, and the group labels of an evaluation.
QueryIds == <<"q1", "q2">>
Queries == SeqRange(QueryIds)
EvalGroups == {"A", "B"}

\* "groups" and "cutoff" are optional parameters (fairness.py:72-88).
NoGroups == [given |-> FALSE, set |-> {}]
NoCutoff == [given |-> FALSE, k |-> 0]

\* The parameters of a measure (fairness.py:39-70).  A cutoff is a rank
\* depth of at least 1.
MeasureParams ==
    [protected_group : {"MINORITY"} \cup EvalGroups,
     tie_breaking : {NoTieBreaking, [kind |-> "GROUP_ASCENDING", list |-> <<>>]},
     groups : {NoGroups, [given |-> TRUE, set |-> EvalGroups]},
     cutoff : {NoCutoff, [given |-> TRUE, k |-> 1]}]

\* rND without parameters (fairness.py:332-333).
rND == [protected_group |-> "MINORITY", tie_breaking |-> NoTieBreaking,
        groups |-> NoGroups, cutoff |-> NoCutoff]

\* _groups(qrels): the configured groups, or the distinct labels of the
\* group column of the judgments passed in (fairness.py:224-227).
\* compute passes the judgments of all queries (fairness.py:230).
GroupsOfQrels(qs, m) ==
    IF m.groups.given THEN m.groups.set
    ELSE {g \in Groups : \E q \in Queries : qs[q][g] > 0}

\* run.groupby("query_id").head(cutoff) (fairness.py:232-236).
Truncate(order, m) ==
    IF m.cutoff.given THEN SubSeq(order, 1, Min(m.cutoff.k, Len(order)))
    ELSE order

\* The query groups of run.groupby("query_id"), in ascending query id
\* (fairness.py:238).
BatchQueries(rn, qs, m) ==
    SelectSeq(QueryIds, LAMBDA q : Truncate(rn[q], m) # <<>>)

\* _group_counts(qrels of the query) (fairness.py:135-141, 243): the
\* module does not import defaultdict, so line 140 raises NameError for
\* every judgment table.
GroupCounts(qs, q) == Err("NameError", "defaultdict")

\* _compute_query (fairness.py:204-222): the error of _group_counts, raised
\* in its first statement (line 210), leaves it; lines 211-222 are not
\* reached.
ComputeQuery(qs, q, order, groups, m) ==
    [err |-> GroupCounts(qs, q), value |-> NoScore]

\* The outcome of the query group at position iq of measure im.
OutcomesAt(im, iq) ==
    LET m == measures[im]
        q == BatchQueries(run, qrels, m)[iq]
    IN  ComputeQuery(qrels, q, Truncate(run[q], m), GroupsOfQrels(qrels, m), m)

NoError == [err |-> "none", why |-> "", group |-> "none"]

JudgmentTables ==
    {qs \in [Queries -> [Groups -> 0..MaxJudged]] :
        \A q \in Queries, g \in Groups \ EvalGroups : qs[q][g] = 0}

EvalIdle ==
    /\ qrels = [q \in Queries |-> [g \in Groups |-> 0]]
    /\ run = [q \in Queries |-> <<>>]
    /\ measures = <<>>
    /\ metrics = <<>>
    /\ ev_m = 0
    /\ ev_q = 0
    /\ ev_status = "idle"
    /\ ev_error = NoError

EvalInit ==
    /\ qrels \in JudgmentTables
    /\ run \in [Queries -> SeqsUpTo(EvalGroups, MaxRunLen)]
    /\ \E m \in MeasureParams : measures \in {<<m>>, <<m, rND>>, <<rND, m>>}
    /\ metrics = <<>>
    /\ ev_m = 1
    /\ ev_q = 1
    /\ ev_status = "running"
    /\ ev_error = NoError

AtQuery ==
    /\ ev_status = "running"
    /\ ev_m <= Len(measures)
    /\ ev_q <= Len(BatchQueries(run, qrels, measures[ev_m]))

\* The next query group of compute: _compute_query raises before the
\* Metric of line 239 is built, and nothing catches the error
\* (fairness.py:238-247, 351-352).  No Metric is yielded.
Propagate ==
    /\ AtQuery
    /\ ev_error' = OutcomesAt(ev_m, ev_q).err
    /\ ev_status' = "aborted"
    /\ UNCHANGED <<qrels, run, measures, metrics, ev_m, ev_q>>

\* The compute of one measure is exhausted: the next measure
\* (fairness.py:351-352).
NextMeasure ==
    /\ ev_status = "running"
    /\ ev_m <= Len(measures)
    /\ ev_q > Len(BatchQueries(run, qrels, measures[ev_m]))
    /\ ev_m' = ev_m + 1
    /\ ev_q' = 1
    /\ UNCHANGED <<qrels, run, measures, metrics, ev_status, ev_error>>

\* Every measure is exhausted: _iter_calc returns.
Return ==
    /\ ev_status = "running"
    /\ ev_m > Len(measures)
    /\ ev_status' = "done"
    /\ UNCHANGED <<qrels, run, measures, metrics, ev_m, ev_q, ev_error>>

\* ================================================ stance rerankers: rankings
\* Longest ranking passed to BalancedStanceReranker, and largest self.k.
MaxBalLen == 5
MaxK == 5

\* stance_value is a float or absent (NaN); the rerankers only compare it
\* with 0, so a value is its sign.
StanceValues == {"pos", "neg", "zero", "nan"}
\* Float comparisons with 0; every comparison with NaN is False.
GT0(v) == v = "pos"
LT0(v) == v = "neg"
GE0(v) == v \in {"pos", "zero"}
LE0(v) == v \in {"neg", "zero"}

\* The ranking of one query, in descending score order: document i of n
\* has the stance stances[i] and the score 10 * (n + 1 - i).
StanceRanking(stances) ==
    [i \in 1..Len(stances) |->
        [docno |-> i, stance_value |-> stances[i],
         score |-> 10 * (Len(stances) + 1 - i)]]

\* ranking["score"] = arange(len(ranking), 0, -1)
\* (fairness_reranker.py:53, 136).
ResetScore(r) ==
    [i \in 1..Len(r) |-> [r[i] EXCEPT !.score = Len(r) + 1 - i]]

\* =============================================== AlternatingStanceReranker
\* The candidates for the next document (fairness_reranker.py:25-36).
Candidates_SameSign(r, last) ==
    IF GT0(last) THEN SelectSeq(r, LAMBDA d : GE0(d.stance_value))
    ELSE IF LT0(last) THEN SelectSeq(r, LAMBDA d : LE0(d.stance_value))
    ELSE r
Candidates_LatestFirst(r, last) ==
    LET c == IF GT0(last) THEN SelectSeq(r, LAMBDA d : LE0(d.stance_value))
             ELSE IF LT0(last)
                  THEN SelectSeq(r, LAMBDA d : GE0(d.stance_value))
                  ELSE r
    IN  [i \in 1..Len(c) |-> c[Len(c) + 1 - i]]
Candidates(r, last) ==
    IF GT0(last) THEN SelectSeq(r, LAMBDA d : LE0(d.stance_value))
    ELSE IF LT0(last) THEN SelectSeq(r, LAMBDA d : GE0(d.stance_value))
    ELSE r

\* ranking.drop(index=index) (fairness_reranker.py:49).
Drop(r, docno) == SelectSeq(r, LAMBDA d : d.docno # docno)

AltIdle ==
    /\ alt_input = <<>>
    /\ alt_ranking = <<>>
    /\ new_rows = <<>>
    /\ last_stance = "nan"
    /\ alt_pc = "idle"

\* ranking = ranking.copy(); new_rows = []; last_stance = nan
\* (fairness_reranker.py:20-22).
AltInit ==
    /\ \E stances \in NonEmptySeqsUpTo(StanceValues, MaxLen) :
          /\ alt_input = StanceRanking(stances)
          /\ alt_ranking = StanceRanking(stances)
    /\ new_rows = <<>>
    /\ last_stance = "nan"
    /\ alt_pc = "loop"

\* One iteration without a candidate: last_stance = nan; continue
\* (fairness_reranker.py:38-43).
AltReset ==
    /\ alt_pc = "loop"
    /\ Len(alt_ranking) > 0
    /\ Candidates(alt_ranking, last_stance) = <<>>
    /\ last_stance' = "nan"
    /\ UNCHANGED <<alt_input, alt_ranking, new_rows, alt_pc>>

\* One iteration that places the first candidate
\* (fairness_reranker.py:45-49).
AltPlace ==
    /\ alt_pc = "loop"
    /\ Len(alt_ranking) > 0
    /\ Candidates(alt_ranking, last_stance) # <<>>
    /\ LET document == Candidates(alt_ranking, last_stance)[1]
       IN  /\ last_stance' = document.stance_value
           /\ new_rows' = Append(new_rows, document)
           /\ alt_ranking' = Drop(alt_ranking, document.docno)
    /\ UNCHANGED <<alt_input, alt_pc>>

\* The pool is empty: the placed rows, with their scores reset, are
\* returned (fairness_reranker.py:50-54).
AltReturn ==
    /\ alt_pc = "loop"
    /\ Len(alt_ranking) = 0
    /\ alt_ranking' = ResetScore(new_rows)
    /\ alt_pc' = "done"
    /\ UNCHANGED <<alt_input, new_rows, last_stance>>

\* ================================================== BalancedStanceReranker
\* The 0-based index labels i of the frame r, after reset_index, with
\* lo <= i < hi.
Indices(r, lo, hi) == {i \in 0..(Len(r) - 1) : lo <= i /\ i < hi}

\* The stop of the slice [:stop] of a frame of n rows: a negative stop
\* counts from the end.
SliceStop(stop, n) == IF stop < 0 THEN n + stop ELSE stop

\* k = min(self.k, len(ranking)) (fairness_reranker.py:75).
EffectiveK(self_k, r) == Min(self_k, Len(r))

\* The index labels of ranking.iloc[:k] (fairness_reranker.py:80, 84).
Window_ToKMinusOne(r, k) == Indices(r, 0, SliceStop(k - 1, Len(r)))
Window(r, k) == Indices(r, 0, SliceStop(k, Len(r)))

\* count_pro_a(), count_pro_b() (fairness_reranker.py:79-85).
CountProA(r, k) ==
    Cardinality({i \in Window(r, k) : GT0(r[i + 1].stance_value)})
CountProB(r, k) ==
    Cardinality({i \in Window(r, k) : LT0(r[i + 1].stance_value)})

\* The index labels of head = ranking.iloc[:k - 1] and of
\* tail = ranking.iloc[k:] (fairness_reranker.py:89-90).
HeadIndices(r, k) == Indices(r, 0, SliceStop(k - 1, Len(r)))
TailIndices(r, k) == Indices(r, k, Len(r))

\* ranking.loc[lo:hi]: the rows with index labels lo..hi, both included.
Loc(r, lo, hi) ==
    LET first == IF lo < 0 THEN 0 ELSE lo
        last == IF hi > Len(r) - 1 THEN Len(r) - 1 ELSE hi
    IN  IF first > last THEN <<>> ELSE SubSeq(r, first + 1, last + 1)

\* The concat of a swap: the row at index i moves behind the row at index
\* j (fairness_reranker.py:105-110, 125-130).
MoveBehind_Ahead(r, i, j) ==
    Loc(r, 0, i - 1) \o Loc(r, i + 1, j - 1) \o Loc(r, i, i)
        \o Loc(r, j, Len(r) - 1)
MoveBehind_Overwrite(r, i, j) ==
    Loc(r, 0, i - 1) \o Loc(r, i + 1, j) \o Loc(r, j, j)
        \o Loc(r, j + 1, Len(r) - 1)
MoveBehind(r, i, j) ==
    Loc(r, 0, i - 1) \o Loc(r, i + 1, j) \o Loc(r, i, i)
        \o Loc(r, j + 1, Len(r) - 1)

MaxOf(S) == CHOOSE x \in S : \A y \in S : y <= x
MinOf(S) == CHOOSE x \in S : \A y \in S : x <= y

\* One iteration of the loop on the imbalanced ranking r: the candidates
\* of both sides and, when both exist, the ranking after the swap
\* (fairness_reranker.py:89-130).
Iteration(r, k) ==
    LET more_a == CountProA(r, k) - CountProB(r, k) > 0
        over == IF more_a
                THEN {i \in HeadIndices(r, k) : GT0(r[i + 1].stance_value)}
                ELSE {i \in HeadIndices(r, k) : LT0(r[i + 1].stance_value)}
        under == IF more_a
                 THEN {i \in TailIndices(r, k) : LT0(r[i + 1].stance_value)}
                 ELSE {i \in TailIndices(r, k) : GT0(r[i + 1].stance_value)}
    IN  IF over = {} \/ under = {}
        THEN [swapped |-> FALSE, moved |-> 0, ranking |-> r]
        ELSE [swapped |-> TRUE, moved |-> r[MaxOf(over) + 1].docno,
              ranking |-> MoveBehind(r, MaxOf(over), MinOf(under))]

\* while abs(count_pro_a() - count_pro_b()) > 1 (fairness_reranker.py:87).
Imbalanced(r, k) == Abs(CountProA(r, k) - CountProB(r, k)) > 1

BalIdle ==
    /\ bal_input = <<>>
    /\ bal_self_k = 0
    /\ bal_ranking = <<>>
    /\ bal_moved = {}
    /\ bal_pc = "idle"

\* assert 0 <= self.k; ranking = ranking.copy().reset_index(drop=True)
\* (fairness_reranker.py:74-77).
BalInit ==
    /\ \E stances \in NonEmptySeqsUpTo(StanceValues, MaxBalLen) :
          /\ bal_input = StanceRanking(stances)
          /\ bal_ranking = StanceRanking(stances)
    /\ bal_self_k \in 0..MaxK
    /\ bal_moved = {}
    /\ bal_pc = "loop"

\* One iteration that swaps.
BalSwap ==
    /\ bal_pc = "loop"
    /\ LET k == EffectiveK(bal_self_k, bal_ranking)
       IN  /\ Imbalanced(bal_ranking, k)
           /\ Iteration(bal_ranking, k).swapped
           /\ bal_ranking' = Iteration(bal_ranking, k).ranking
           /\ bal_moved' = bal_moved \cup {Iteration(bal_ranking, k).moved}
    /\ UNCHANGED <<bal_input, bal_self_k, bal_pc>>

\* One iteration that finds no pair: return ranking
\* (fairness_reranker.py:100-101, 120-121).
BalGiveUp ==
    /\ bal_pc = "loop"
    /\ LET k == EffectiveK(bal_self_k, bal_ranking)
       IN  /\ Imbalanced(bal_ranking, k)
           /\ ~Iteration(bal_ranking, k).swapped
    /\ bal_pc' = "done"
    /\ UNCHANGED <<bal_input, bal_self_k, bal_ranking, bal_moved>>

\* The loop ends: the scores are reset and the ranking is returned
\* (fairness_reranker.py:132-137).
BalReturn ==
    /\ bal_pc = "loop"
    /\ ~Imbalanced(bal_ranking, EffectiveK(bal_self_k, bal_ranking))
    /\ bal_ranking' = ResetScore(bal_ranking)
    /\ bal_pc' = "done"
    /\ UNCHANGED <<bal_input, bal_self_k, bal_moved>>

\* ============================================ label rerankers: rankings
\* Longest ranking passed to InverseStanceGainReranker and to
\* BoostMinorityStanceReranker.
MaxGainLen == 3
MaxBoostLen == 4

\* The stance labels, and the value of a row without one (None/NaN).
StanceLabels == {"FIRST", "SECOND", "NEUTRAL", "NO"}
InputLabels == StanceLabels \cup {"none"}
\* The scores of the input rows.
ScoreValues == {1, 2, 3}

\* The ranking of one query: document i has the label labels[i] and the
\* score scores[i], kept as the rational <<scores[i], 1>>.
LabelRanking(labels, scores) ==
    [i \in 1..Len(labels) |->
        [docno |-> i, stance_label |-> labels[i], score |-> <<scores[i], 1>>]]

\* The score sequences of n rows in descending score order.
DescendingScores(n) ==
    {sc \in [1..n -> ScoreValues] : \A i \in 1..(n - 1) : sc[i] >= sc[i + 1]}

\* ranking["stance_label"].fillna("NO", inplace=True)
\* (fairness_reranker.py:182, 222).
FillNa(r) ==
    [i \in 1..Len(r) |->
        IF r[i].stance_label = "none"
        THEN [r[i] EXCEPT !.stance_label = "NO"] ELSE r[i]]

\* =============================================== InverseStanceGainReranker
\* self.stances: the tuple the registry passes (fairness_reranker.py:
\* 268-271), and a tuple of all four labels.
RegistryStances == {"FIRST", "SECOND", "NEUTRAL"}
StanceConfigs == {RegistryStances, StanceLabels}
\* self.alpha (fairness_reranker.py:170): the default 0.5, and 0.75.
Alphas == {<<1, 2>>, <<3, 4>>}

\* _discounted_gain (fairness_reranker.py:174-178): every row with the
\* stance adds 1 / 1.
DiscountedGain(r, stance) ==
    Cardinality({i \in 1..Len(r) : r[i].stance_label = stance})

\* The dict of fairness_reranker.py:185-190: the inverse gain of every
\* stance of self.stances that is in the ranking.
StanceBoost(r, stances) ==
    LET ranking_stances == {r[i].stance_label : i \in 1..Len(r)}
    IN  [stance \in stances \cap ranking_stances |->
            <<1, DiscountedGain(r, stance)>>]

\* defaultdict(lambda: 0.0, stance_boost) (fairness_reranker.py:191): the
\* module does not import defaultdict, the name lookup raises.
DefaultDict(stance_boost) == [err |-> "NameError"]

\* _rerank_query (fairness_reranker.py:180-201): the error raised at line
\* 191 leaves the function; lines 192-201 (the boost lookup, the
\* normalization, the blend, the sort) are not reached.  Where annotations
\* are evaluated eagerly the class body raises NameError already, for
\* Sequence (line 169), which is not imported either.
GainRerankQuery(r, stances, alpha) ==
    LET filled == FillNa(r)
        stance_boost == DefaultDict(StanceBoost(filled, stances))
    IN  [err |-> stance_boost.err, ranking |-> <<>>]

GainIdle ==
    /\ gain_input = <<>>
    /\ gain_stances = {}
    /\ gain_alpha = <<0, 1>>
    /\ gain_result = [err |-> "not called", ranking |-> <<>>]
    /\ gain_pc = "idle"

GainInit ==
    /\ \E n \in 1..MaxGainLen :
          \E labels \in [1..n -> InputLabels], scores \in DescendingScores(n) :
              gain_input = LabelRanking(labels, scores)
    /\ gain_stances \in StanceConfigs
    /\ gain_alpha \in Alphas
    /\ gain_result = [err |-> "not called", ranking |-> <<>>]
    /\ gain_pc = "call"

\* One call of _rerank_query.
GainRerank ==
    /\ gain_pc = "call"
    /\ gain_result' = GainRerankQuery(gain_input, gain_stances, gain_alpha)
    /\ gain_pc' = "done"
    /\ UNCHANGED <<gain_input, gain_stances, gain_alpha>>

\* ============================================= BoostMinorityStanceReranker
\* self.boost: the registry's 2 (fairness_reranker.py:273), and 3.
BoostFactors == {2, 3}

\* stance_counts (fairness_reranker.py:224): the size of every label group,
\* read as 0 where the dict has no key.
StanceCounts(r) ==
    [stance \in StanceLabels |->
        Cardinality({i \in 1..Len(r) : r[i].stance_label = stance})]

\* stance_counts.get(stance, default=0) (fairness_reranker.py:227):
\* dict.get takes no keyword arguments.
DictGetDefault(stance_counts, stance) == [err |-> "TypeError"]

\* sorted([...], key=...)[0] (fairness_reranker.py:225-228): the key of the
\* first list element, "FIRST", is computed first, and raises.
SortedStances(stance_counts) == DictGetDefault(stance_counts, "FIRST")

\* _rerank_query (fairness_reranker.py:220-236): the error raised at line
\* 227 leaves the function; lines 231-236 are not reached.
BoostRerankQuery(r, boost) ==
    LET filled == FillNa(r)
        sorted_stances == SortedStances(StanceCounts(filled))
    IN  [err |-> sorted_stances.err, ranking |-> <<>>]

BoostIdle ==
    /\ boost_input = <<>>
    /\ boost_self = 0
    /\ boost_result = [err |-> "not called", ranking |-> <<>>]
    /\ boost_pc = "idle"

BoostInit ==
    /\ \E n \in 1..MaxBoostLen :
          \E labels \in [1..n -> InputLabels] :
              boost_input = LabelRanking(labels, [i \in 1..n |-> n + 1 - i])
    /\ boost_self \in BoostFactors
    /\ boost_result = [err |-> "not called", ranking |-> <<>>]
    /\ boost_pc = "call"

\* One call of _rerank_query.
BoostRerank ==
    /\ boost_pc = "call"
    /\ boost_result' = BoostRerankQuery(boost_input, boost_self)
    /\ boost_pc' = "done"
    /\ UNCHANGED <<boost_input, boost_self>>

\* =========================================================== specifications
InitRND == RndInit /\ SelIdle /\ EvalIdle /\ AltIdle /\ BalIdle
    /\ GainIdle /\ BoostIdle
NextRND == Fairness
    /\ UNCHANGED <<selVars, evalVars, altVars, balVars,
                   gainVars, boostVars>>
SpecRND == InitRND /\ [][NextRND]_vars

InitSel == SelInit /\ RndIdle /\ EvalIdle /\ AltIdle /\ BalIdle
    /\ GainIdle /\ BoostIdle
NextSel ==
    SelectProtectedGroup
        /\ UNCHANGED <<rndVars, evalVars, altVars, balVars,
                       gainVars, boostVars>>
SpecSel == InitSel /\ [][NextSel]_vars

InitEval == EvalInit /\ RndIdle /\ SelIdle /\ AltIdle /\ BalIdle
    /\ GainIdle /\ BoostIdle
NextEval ==
    \/ Propagate
        /\ UNCHANGED <<rndVars, selVars, altVars, balVars,
                       gainVars, boostVars>>
    \/ NextMeasure
        /\ UNCHANGED <<rndVars, selVars, altVars, balVars,
                       gainVars, boostVars>>
    \/ Return
        /\ UNCHANGED <<rndVars, selVars, altVars, balVars,
                       gainVars, boostVars>>
SpecEval == InitEval /\ [][NextEval]_vars

InitAlt == AltInit /\ RndIdle /\ SelIdle /\ EvalIdle /\ BalIdle
    /\ GainIdle /\ BoostIdle
NextAlt ==
    \/ AltReset
        /\ UNCHANGED <<rndVars, selVars, evalVars, balVars,
                       gainVars, boostVars>>
    \/ AltPlace
        /\ UNCHANGED <<rndVars, selVars, evalVars, balVars,
                       gainVars, boostVars>>
    \/ AltReturn
        /\ UNCHANGED <<rndVars, selVars, evalVars, balVars,
                       gainVars, boostVars>>
SpecAlt == InitAlt /\ [][NextAlt]_vars

InitBal == BalInit /\ RndIdle /\ SelIdle /\ EvalIdle /\ AltIdle
    /\ GainIdle /\ BoostIdle
NextBal ==
    \/ BalSwap
        /\ UNCHANGED <<rndVars, selVars, evalVars, altVars,
                       gainVars, boostVars>>
    \/ BalGiveUp
        /\ UNCHANGED <<rndVars, selVars, evalVars, altVars,
                       gainVars, boostVars>>
    \/ BalReturn
        /\ UNCHANGED <<rndVars, selVars, evalVars, altVars,
                       gainVars, boostVars>>
SpecBal == InitBal /\ [][NextBal]_vars
\* The loops run in one thread that nothing suspends: a step that is
\* enabled is taken.
SpecBalFair == SpecBal /\ WF_vars(NextBal)
SpecAltFair == SpecAlt /\ WF_vars(NextAlt)

InitGain ==
    GainInit /\ RndIdle /\ SelIdle /\ EvalIdle /\ AltIdle /\ BalIdle
    /\ BoostIdle
NextGain ==
    GainRerank
        /\ UNCHANGED <<rndVars, selVars, evalVars, altVars, balVars, boostVars>>
SpecGain == InitGain /\ [][NextGain]_vars

InitBoost ==
    BoostInit /\ RndIdle /\ SelIdle /\ EvalIdle /\ AltIdle /\ BalIdle
    /\ GainIdle
NextBoost ==
    BoostRerank
        /\ UNCHANGED <<rndVars, selVars, evalVars, altVars, balVars, gainVars>>
SpecBoost == InitBoost /\ [][NextBoost]_vars

\* ================================================================== claims
\* ---------------------------------------------------------------- rND
\* The deviation of the definition of rND: |S+_in_i / i - S+ / N|.
DefinedDeviation(sIn, i, sPlus, n) == Rat(Abs(sIn * n - sPlus * i), i * n)

\* The terms of rND as defined, for the normalized ranking r.
DefinedTerms(r, counts, pg) ==
    [j \in 1..Len(r) |->
        DefinedDeviation(SPlusIn(r, pg, r[j].rank), r[j].rank, counts[pg],
                         TotalCount(counts))]
DefinedMicro(r, counts, pg) ==
    SumSeq([j \in 1..Len(r) |->
               TermMicro(r[j].rank, DefinedTerms(r, counts, pg)[j])])

\* The example: judgments A, A, B; ranking d1, d2, d3 of groups A, A, B;
\* protected group B.
ExampleCounts == [g \in Groups |-> IF g = "A" THEN 2 ELSE IF g = "B" THEN 1 ELSE 0]
IsExample ==
    /\ rnd_input = RankingOf(<<"A", "A", "B">>, 1)
    /\ group_counts = ExampleCounts
    /\ protected_group = "B"

\* C1: for every ranking, group counts (N > 0) and protected group the
\* score is the sum over the ranks i of (1/log2(i+1)) * |S+_in_i/i - S+/N|;
\* in the example the term at i = 3 is 0 and the total is
\* 1/3 + (1/log2(3))/3, 0.543643 in millionths.
C1_ScoreIsDefinedSum ==
    (rnd_pc = "done" /\ TotalCount(group_counts) > 0) =>
        /\ score.err = "none"
        /\ score.terms = DefinedTerms(ranking, group_counts, protected_group)
        /\ score.micro = DefinedMicro(ranking, group_counts, protected_group)
        /\ IsExample => (score.terms[3] = <<0, 1>> /\ score.micro = 543643)

\* At every prefix length i the protected group's share of the prefix is
\* its share of the judgments: S+_in_i * N = S+ * i.
Proportional(r, counts, pg) ==
    \A i \in 1..Len(r) :
        SPlusIn(r, pg, i) * TotalCount(counts) = counts[pg] * i

\* C2: the score is >= 0 for every input (N > 0), and it is 0 whenever the
\* protected group's share of every prefix equals its global share.
C2_NonNegativeAndZeroWhenProportional ==
    (rnd_pc = "done" /\ TotalCount(group_counts) > 0) =>
        /\ score.err = "none"
        /\ score.micro >= 0
        /\ \A j \in 1..Len(score.terms) : score.terms[j][1] >= 0
        /\ Proportional(ranking, group_counts, protected_group) =>
              /\ score.micro = 0
              /\ \A j \in 1..Len(score.terms) : score.terms[j][1] = 0

GroupsOf(r) == [j \in 1..Len(r) |-> r[j].group]

\* C3: the score of an ordering ranked from 0 equals the score of the same
\* ordering ranked from 1; a ranking with a rank 0 has every rank shifted
\* up by 1 before scoring, a ranking without one is left as it is.
C3_RankBaseInvariant ==
    rnd_pc = "done" =>
        LET order == GroupsOf(rnd_input)
            zero == RankingOf(order, 0)
            one == RankingOf(order, 1)
        IN  /\ score = fairness(zero, group_counts, protected_group)
            /\ score = fairness(one, group_counts, protected_group)
            /\ rnd_input = zero => ranking = one
            /\ rnd_input = one => ranking = rnd_input

\* A ranking ranked from 0, of two documents or more, scored without error
\* and not 0.
C3_Witness ==
    /\ rnd_pc = "done"
    /\ Len(rnd_input) >= 2
    /\ rnd_input[1].rank = 0
    /\ score.err = "none"
    /\ score.micro > 0

\* ----------------------------------------------------- _protected_group
\* The keys of a group-count mapping.
Present(counts) == {g \in Groups : counts[g] > 0}
\* The groups with the smallest (largest) count.
AtMinimum(counts) ==
    {g \in Present(counts) : \A h \in Present(counts) : counts[g] <= counts[h]}
AtMaximum(counts) ==
    {g \in Present(counts) : \A h \in Present(counts) : counts[g] >= counts[h]}
AtExtreme(counts, strategy) ==
    IF strategy = "MINORITY" THEN AtMinimum(counts) ELSE AtMaximum(counts)

\* C4: when exactly one group has the minimum count, MINORITY selection
\* returns that group, on every call and under every tie-breaking setting,
\* and does not read the tie-breaking setting.
C4_UniqueMinimumNeedsNoTieBreaking ==
    (sel_pc = "done" /\ sel_param = "MINORITY"
        /\ Cardinality(AtMinimum(sel_counts)) = 1) =>
        LET m == CHOOSE g \in AtMinimum(sel_counts) : TRUE
        IN  /\ sel_result = Ok(m)
            /\ ~sel_tie_read
            /\ \A t \in TieBreakingParams :
                  ProtectedGroupRuns(sel_counts, "MINORITY", t)
                      = {[out |-> Ok(m), tie_read |-> FALSE]}

\* A unique minimum below two groups that share a count, with a preference
\* list that names only those two.
C4_Witness ==
    /\ sel_pc = "done"
    /\ sel_param = "MINORITY"
    /\ sel_counts = [g \in Groups |-> IF g = "C" THEN 1 ELSE 2]
    /\ sel_tie = [kind |-> "PREFERENCE", list |-> <<"B", "A">>]
    /\ sel_result = Ok("C")

\* C5: when two or more groups share the minimum count and no tie-breaking
\* is configured, MINORITY selection raises the error of the tie and
\* returns no group.
C5_TieWithoutTieBreakingFails ==
    (sel_pc = "done" /\ sel_param = "MINORITY"
        /\ Cardinality(AtMinimum(sel_counts)) >= 2
        /\ sel_tie = NoTieBreaking) =>
        /\ sel_result = Err("ValueError", "tie")
        /\ ProtectedGroupRuns(sel_counts, sel_param, sel_tie)
              = {[out |-> Err("ValueError", "tie"), tie_read |-> TRUE]}

\* Exactly two groups, tied.
C5_Witness ==
    /\ sel_pc = "done"
    /\ sel_param = "MINORITY"
    /\ sel_tie = NoTieBreaking
    /\ sel_counts = [g \in Groups |-> IF g = "C" THEN 0 ELSE 1]
    /\ sel_result.err = "ValueError"

\* The first label of the list l that is in the set gs, as a sequence of
\* at most one label.
RECURSIVE FirstListedIn(_, _)
FirstListedIn(l, gs) ==
    IF l = <<>> THEN <<>>
    ELSE IF Head(l) \in gs THEN <<Head(l)>>
    ELSE FirstListedIn(Tail(l), gs)

\* C6: with a tie at the extreme count and tie-breaking configured, a
\* returned group is one of the tied groups: the smallest tied label for
\* GROUP_ASCENDING, the largest for GROUP_DESCENDING, any tied label for
\* RANDOM, the first listed tied label for a preference list; a preference
\* list naming no tied group raises an error.
C6_TieBreakingPicksTiedGroup ==
    (sel_pc = "done" /\ sel_param \in ProtectedGroupStrategy
        /\ Cardinality(AtExtreme(sel_counts, sel_param)) >= 2
        /\ sel_tie # NoTieBreaking) =>
        LET tied == AtExtreme(sel_counts, sel_param)
            outs == {sel.out :
                        sel \in ProtectedGroupRuns(sel_counts, sel_param, sel_tie)}
            listed == FirstListedIn(sel_tie.list, tied)
        IN  /\ sel_tie_read
            /\ sel_result.err = "none" => sel_result.group \in tied
            /\ sel_tie.kind = "GROUP_ASCENDING" =>
                  sel_result = Ok(MinLabel(tied))
            /\ sel_tie.kind = "GROUP_DESCENDING" =>
                  sel_result = Ok(MaxLabel(tied))
            /\ sel_tie.kind = "RANDOM" => outs = {Ok(g) : g \in tied}
            /\ sel_tie.kind = "PREFERENCE" =>
                  IF listed = <<>>
                  THEN sel_result = Err("ValueError", "preference")
                  ELSE sel_result = Ok(listed[1])

\* A preference list whose first label is a group outside the tie and
\* whose second label is tied: the second is returned.
C6_Witness ==
    /\ sel_pc = "done"
    /\ sel_param = "MAJORITY"
    /\ sel_counts = [g \in Groups |-> IF g = "A" THEN 1 ELSE 2]
    /\ sel_tie = [kind |-> "PREFERENCE", list |-> <<"A", "C">>]
    /\ sel_result = Ok("C")

\* ------------------------------------------------------------ _iter_calc
\* The number of Metrics yielded for query q by the measure at index im.
Yielded(q, im) ==
    Cardinality({i \in 1..Len(metrics) :
        metrics[i].query_id = q /\ metrics[i].measure = im})

\* The queries present in the ranking batch.
InBatch == {q \in Queries : run[q] # <<>>}

\* C7: when no group set is configured, a query's protected group is
\* validated against the distinct group labels of that query's own
\* judgments: for an explicit protected group without a judgment in query q
\* the evaluation of q fails (it yields no Metric, and an abort at a query
\* q that has judgments is the validation error), also when other queries
\* have judgments of that group.
C7_ValidatedAgainstQueryJudgments ==
    \A im \in 1..Len(measures) : \A q \in InBatch :
        LET m == measures[im]
        IN  (~m.groups.given /\ m.protected_group \in Groups
                /\ qrels[q][m.protected_group] = 0) =>
                /\ Yielded(q, im) = 0
                /\ (ev_status = "aborted" /\ ev_m = im
                      /\ BatchQueries(run, qrels, m)[ev_q] = q
                      /\ TotalCount(qrels[q]) > 0) =>
                      ev_error = Err("ValueError", "not found")

\* The error of the protected-group selection (the choice of the group and
\* its validation against the group set) of query q under the measure at
\* index im, NoError when the selection succeeds.
SelectionError(q, im) ==
    LET m == measures[im]
        sel == CHOOSE x \in ProtectedGroupRuns(qrels[q], m.protected_group,
                                               m.tie_breaking) : TRUE
    IN  IF sel.out.err # "none" THEN sel.out
        ELSE IF sel.out.group \notin GroupsOfQrels(qrels, m)
        THEN Err("ValueError", "not found")
        ELSE NoError

\* C8: for every query of the batch and every measure (cutoffs >= 1), the
\* evaluation yields exactly one Metric for the pair or aborts: it never
\* returns normally with a pair left out, never yields two Metrics for a
\* pair, yields no Metric for a query whose selection fails, and an abort
\* at a query whose selection fails propagates that selection's error.
C8_OneMetricPerPairOrAbort ==
    /\ \A im \in 1..Len(measures) : \A q \in Queries :
          /\ Yielded(q, im) <= 1
          /\ Yielded(q, im) = 1 => q \in InBatch
          /\ (q \in InBatch /\ SelectionError(q, im) # NoError) =>
                Yielded(q, im) = 0
          /\ (ev_status = "done" /\ q \in InBatch) => Yielded(q, im) = 1
    /\ ev_status = "aborted" =>
          LET q == BatchQueries(run, qrels, measures[ev_m])[ev_q]
          IN  /\ q \in InBatch
              /\ Yielded(q, ev_m) = 0
              /\ ev_error # NoError
              /\ SelectionError(q, ev_m) # NoError =>
                    ev_error = SelectionError(q, ev_m)
              /\ \A im \in 1..(ev_m - 1) : \A p \in InBatch :
                    Yielded(p, im) = 1

\* ------------------------------------------- AlternatingStanceReranker
\* The documents still in the pool once the first j documents are placed.
PoolAfter(j) ==
    {alt_input[i] : i \in {x \in 1..Len(alt_input) :
        \A m \in 1..j : new_rows[m].docno # alt_input[x].docno}}

Docnos(r) == [i \in 1..Len(r) |-> r[i].docno]

\* C9: whenever a document of positive (negative) stance is placed while
\* the remaining pool holds a document of the opposite sign, the document
\* placed next does not have the sign of the one just placed; the returned
\* ranking is the placed documents in the order of their placing.
C9_AlternatesWhileOppositeRemains ==
    /\ \A j \in 1..(Len(new_rows) - 1) :
          /\ (GT0(new_rows[j].stance_value)
                /\ \E d \in PoolAfter(j) : LT0(d.stance_value)) =>
                ~GT0(new_rows[j + 1].stance_value)
          /\ (LT0(new_rows[j].stance_value)
                /\ \E d \in PoolAfter(j) : GT0(d.stance_value)) =>
                ~LT0(new_rows[j + 1].stance_value)
    /\ alt_pc = "done" => Docnos(alt_ranking) = Docnos(new_rows)

\* Two positive documents ahead of a negative one: the negative one is
\* placed second.
C9_Witness ==
    /\ alt_pc = "done"
    /\ alt_input = StanceRanking(<<"pos", "pos", "neg">>)
    /\ Docnos(alt_ranking) = <<1, 3, 2>>

\* ---------------------------------------------- BalancedStanceReranker
\* The ranking r holds the documents of the ranking s, in the order of s.
SameDocumentsInOrder(r, s) ==
    /\ Len(r) = Len(s)
    /\ \A i \in 1..Len(r) :
          /\ r[i].docno = s[i].docno
          /\ r[i].stance_value = s[i].stance_value

\* C10: with k = 0 no swap is made: at every step and in the returned
\* ranking the documents are the input documents in their input order;
\* nothing but the scores differs from the input.
C10_KZeroIsNoOp ==
    bal_self_k = 0 =>
        /\ SameDocumentsInOrder(bal_ranking, bal_input)
        /\ bal_pc = "done" => bal_ranking = ResetScore(bal_input)

\* k = 0 on a ranking that a window of 3 would rearrange.
C10_Witness ==
    /\ bal_pc = "done"
    /\ bal_self_k = 0
    /\ bal_input = StanceRanking(<<"pos", "pos", "pos", "neg">>)
    /\ bal_ranking = ResetScore(bal_input)

\* The scores of r are strictly descending in row order.
StrictlyDescending(r) ==
    \A i \in 1..(Len(r) - 1) : r[i].score > r[i + 1].score

\* C11: the ranking returned by BalancedStanceReranker has scores strictly
\* descending in the returned document order, also when the balancing
\* stopped early after one or more swaps.
C11_ReturnedScoresDescend ==
    bal_pc = "done" => StrictlyDescending(bal_ranking)

\* The polarity imbalance of the top-k window: |#pro_a - #pro_b|.
Imbalance(r, self_k) ==
    Abs(CountProA(r, EffectiveK(self_k, r))
            - CountProB(r, EffectiveK(self_k, r)))

\* C15: every swap reduces the imbalance of the top-k window by exactly 2.
C15_SwapReducesImbalanceByTwo ==
    [][bal_ranking' # bal_ranking /\ bal_pc' = "loop" =>
          Imbalance(bal_ranking', bal_self_k)
              = Imbalance(bal_ranking, bal_self_k) - 2]_vars

\* What a swap on the ranking r takes off the imbalance, by the row right
\* behind the window (index k), which the swap pulls into the window: 2 if
\* that row has the stance the window lacks, 0 if it has the stance the
\* window has too much of, 1 if it has neither.
SwapReduction(r, self_k) ==
    LET k == EffectiveK(self_k, r)
        more_a == CountProA(r, k) > CountProB(r, k)
        entering == r[k + 1].stance_value
    IN  IF (more_a /\ LT0(entering)) \/ (~more_a /\ GT0(entering)) THEN 2
        ELSE IF GT0(entering) \/ LT0(entering) THEN 0
        ELSE 1

\* C15 (amended): a swap never increases the imbalance of the top-k
\* window; it takes 2, 1 or 0 off it, as the row right behind the window
\* has the lacking stance, no polarity, or the over-represented stance.
C15_SwapReducesImbalanceByEnteringRow ==
    [][bal_ranking' # bal_ranking /\ bal_pc' = "loop" =>
          Imbalance(bal_ranking', bal_self_k)
              = Imbalance(bal_ranking, bal_self_k)
                  - SwapReduction(bal_ranking, bal_self_k)]_vars

\* One swap was made and the imbalance of the window is what it was.
C15_Witness ==
    /\ bal_pc = "loop"
    /\ bal_input = StanceRanking(<<"pos", "pos", "pos", "neg">>)
    /\ bal_self_k = 2
    /\ Docnos(bal_ranking) = <<2, 3, 4, 1>>
    /\ Imbalance(bal_ranking, bal_self_k) = Imbalance(bal_input, bal_self_k)

\* The ranking r holds every document of the ranking s once, with its
\* stance.
SameDocuments(r, s) ==
    /\ Len(r) = Len(s)
    /\ \A d \in 1..Len(s) :
          \E i \in 1..Len(r) :
              /\ r[i].docno = s[d].docno
              /\ r[i].stance_value = s[d].stance_value
              /\ \A j \in 1..Len(r) : r[j].docno = r[i].docno => j = i

\* The docnos of r that are not in the set moved, in row order.
Unmoved(r, moved) == SelectSeq(Docnos(r), LAMBDA d : d \notin moved)

\* C16: the swap loop terminates, with the window imbalance at most 1 or
\* with no pair left to swap; the ranking holds the input documents once
\* each, those that no swap moved in their input order.
C16_TerminatesWithSameDocuments ==
    /\ <>(bal_pc = "done")
    /\ [](/\ SameDocuments(bal_ranking, bal_input)
          /\ Unmoved(bal_ranking, bal_moved) = Unmoved(bal_input, bal_moved)
          /\ bal_pc = "done" =>
                \/ Imbalance(bal_ranking, bal_self_k) <= 1
                \/ ~Iteration(bal_ranking,
                              EffectiveK(bal_self_k, bal_ranking)).swapped)

\* The loop ended balanced after two swaps.
C16_Witness ==
    /\ bal_pc = "done"
    /\ Cardinality(bal_moved) = 2
    /\ Imbalance(bal_ranking, bal_self_k) <= 1
    /\ Docnos(bal_ranking) # Docnos(bal_input)

\* --------------------------- AlternatingStanceReranker: the whole loop
\* The documents of the pool that may follow a document of the stance
\* last: after a positive (negative) one, those of negative (positive) or
\* zero stance, if there is one; every document of the pool otherwise.  A
\* document without a stance value compares with nothing.
Eligible(pool, last) ==
    LET others == IF last = "pos"
                  THEN {d \in pool : d.stance_value \in {"neg", "zero"}}
                  ELSE IF last = "neg"
                       THEN {d \in pool : d.stance_value \in {"pos", "zero"}}
                       ELSE pool
    IN  IF others = {} THEN pool ELSE others

\* The j-th placed document is the earliest in input order of those
\* eligible when it was placed.
EarliestEligible(j) ==
    LET last == IF j = 1 THEN "nan" ELSE new_rows[j - 1].stance_value
        eligible == Eligible(PoolAfter(j - 1), last)
    IN  /\ new_rows[j] \in eligible
        /\ \A d \in eligible : new_rows[j].docno <= d.docno

\* C17: the loop of AlternatingStanceReranker terminates; every document
\* placed is the earliest eligible one of the pool; the returned ranking
\* holds each input document once, with the scores n, n - 1, ..., 1.
C17_TerminatesPlacingEarliestEligible ==
    /\ <>(alt_pc = "done")
    /\ [](/\ \A j \in 1..Len(new_rows) : EarliestEligible(j)
          /\ alt_pc = "done" =>
                /\ SameDocuments(alt_ranking, alt_input)
                /\ \A i \in 1..Len(alt_ranking) :
                      alt_ranking[i].score = Len(alt_ranking) + 1 - i)

\* A document without a stance value between a positive and a negative
\* one is passed over, and placed after a reset.
C17_Witness ==
    /\ alt_pc = "done"
    /\ alt_input = StanceRanking(<<"pos", "nan", "neg">>)
    /\ Docnos(alt_ranking) = <<1, 3, 2>>
    /\ alt_ranking[1].score = 3

\* ------------------------------------------ InverseStanceGainReranker
\* Arithmetic on the rationals <<n, d>>.
RatAdd(a, b) == Rat(a[1] * b[2] + b[1] * a[2], a[2] * b[2])
RatMul(a, b) == Rat(a[1] * b[1], a[2] * b[2])
RatLess(a, b) == a[1] * b[2] < b[1] * a[2]

\* The rows of the input r that carry the label, a row without a label
\* counting as NO.
Occurrences(r, label) ==
    Cardinality({i \in 1..Len(r) :
        \/ r[i].stance_label = label
        \/ label = "NO" /\ r[i].stance_label = "none"})

\* The label of document d of the input r, NO for a missing one.
LabelOf(r, d) ==
    IF r[d].stance_label = "none" THEN "NO" ELSE r[d].stance_label

\* The score of r min-max normalized to [0, 1], where the scores differ.
MinMaxNormalized(r, d) ==
    LET lo == CHOOSE x \in {r[i].score[1] : i \in 1..Len(r)} :
                  \A i \in 1..Len(r) : x <= r[i].score[1]
        hi == CHOOSE x \in {r[i].score[1] : i \in 1..Len(r)} :
                  \A i \in 1..Len(r) : x >= r[i].score[1]
    IN  Rat(r[d].score[1] - lo, hi - lo)

\* (1 - alpha) * normalized score + alpha / occurrences of the label, for
\* document d of the input r.
NormalizedBlend(r, d, alpha) ==
    RatAdd(RatMul(<<alpha[2] - alpha[1], alpha[2]>>, MinMaxNormalized(r, d)),
           RatMul(alpha, <<1, Occurrences(r, LabelOf(r, d))>>))

\* C13: for input scores that differ and stances that hold every label,
\* the reranker returns every document of the input with the new score
\* (1 - alpha) * normalized score + alpha * boost(label), in descending
\* order of the new score.
C13_BlendsNormalizedScores ==
    (/\ gain_pc = "done"
     /\ gain_stances = StanceLabels
     /\ gain_input[1].score # gain_input[Len(gain_input)].score) =>
        /\ gain_result.err = "none"
        /\ Len(gain_result.ranking) = Len(gain_input)
        /\ \A i \in 1..Len(gain_result.ranking) :
              gain_result.ranking[i].score
                  = NormalizedBlend(gain_input, gain_result.ranking[i].docno,
                                    gain_alpha)
        /\ \A i \in 1..(Len(gain_result.ranking) - 1) :
              ~RatLess(gain_result.ranking[i].score,
                       gain_result.ranking[i + 1].score)

\* The new score of document d of the input in the returned ranking.
NewScore(d) ==
    LET i == CHOOSE x \in 1..Len(gain_result.ranking) :
                 gain_result.ranking[x].docno = d
    IN  gain_result.ranking[i].score

\* C14: the reranker returns the ranking, and of two documents of equal
\* input score the one whose label occurs less often (a missing label
\* counting as NO) has the larger boost, so the larger new score.
C14_RarerLabelLargerBoost ==
    gain_pc = "done" =>
        /\ gain_result.err = "none"
        /\ Len(gain_result.ranking) = Len(gain_input)
        /\ \A d, e \in 1..Len(gain_input) :
              (/\ gain_input[d].score = gain_input[e].score
               /\ Occurrences(gain_input, LabelOf(gain_input, d))
                     < Occurrences(gain_input, LabelOf(gain_input, e))) =>
                  RatLess(NewScore(e), NewScore(d))

\* ----------------------------------------- BoostMinorityStanceReranker
\* The minority label of the input r: of the labels that occur the one
\* with the fewest rows, the first of FIRST, SECOND, NEUTRAL, NO on equal
\* counts.
LabelPriority == <<"FIRST", "SECOND", "NEUTRAL", "NO">>
MinorityLabel(r) ==
    LET occurring == {i \in 1..4 : Occurrences(r, LabelPriority[i]) > 0}
        fewest == {i \in occurring : \A j \in occurring :
                      Occurrences(r, LabelPriority[i])
                          <= Occurrences(r, LabelPriority[j])}
    IN  LabelPriority[CHOOSE i \in fewest : \A j \in fewest : i <= j]

\* The input r with the scores of the rows of the minority label
\* multiplied by boost, and NO for a missing label.
MinorityBoosted(r, boost) ==
    [i \in 1..Len(r) |->
        LET label == IF r[i].stance_label = "none" THEN "NO"
                     ELSE r[i].stance_label
        IN  [docno |-> r[i].docno, stance_label |-> label,
             score |-> IF label = MinorityLabel(r)
                       THEN <<boost * r[i].score[1], 1>> ELSE r[i].score]]

\* C12: BoostMinorityStanceReranker returns the ranking with the score of
\* exactly the minority-label documents multiplied by boost; on the labels
\* FIRST, FIRST, SECOND, NO the SECOND document alone is boosted.
C12_BoostsMinorityLabelOnly ==
    boost_pc = "done" =>
        /\ boost_result.err = "none"
        /\ boost_result.ranking = MinorityBoosted(boost_input, boost_self)
        /\ (\A i \in 1..Len(boost_input) :
               boost_input[i].stance_label
                   = <<"FIRST", "FIRST", "SECOND", "NO">>[i]) =>
              \A i \in 1..Len(boost_input) :
                  boost_result.ranking[i].score
                      = IF i = 3
                        THEN <<boost_self * boost_input[i].score[1], 1>>
                        ELSE boost_input[i].score

=============================================================================
